---------------------------- MODULE Spec2Model ----------------------------
(***************************************************************************)
(* Model of the GolayCode codec of golay_example.py: the two matrices and  *)
(* the syndrome table built by the constructor, encode and decode as they  *)
(* are computed on Python integers, and a caller that encodes a message,   *)
(* sends it through a channel that flips bits, and decodes what arrives.   *)
(***************************************************************************)
EXTENDS Integers, Sequences, FiniteSets, TLC

(***************************************************************************)
(* Bounds of the model.                                                    *)
(***************************************************************************)
\* the channel flips at most this many distinct bit positions of a codeword
MaxFlips == 3
\* encode is called with every integer from -MaxExcess to 4095 + MaxExcess
MaxExcess == 2
\* decode is also called with the integers within MaxRaw of 0 and of 2^23
MaxRaw == 3
\* and with the codewords of the messages with at most MaxNoise bits flipped
MaxNoise == 2

(***************************************************************************)
(* Python integer operators, on unbounded two's-complement integers.       *)
(***************************************************************************)
RECURSIVE And(_, _)
\* a & b
And(a, b) ==
    IF a = 0 \/ b = 0 THEN 0
    ELSE IF a = -1 THEN b
    ELSE IF b = -1 THEN a
    ELSE (a % 2) * (b % 2) + 2 * And(a \div 2, b \div 2)

RECURSIVE Or(_, _)
\* a | b
Or(a, b) ==
    IF a = 0 THEN b
    ELSE IF b = 0 THEN a
    ELSE IF a = -1 \/ b = -1 THEN -1
    ELSE (IF a % 2 = 1 \/ b % 2 = 1 THEN 1 ELSE 0) + 2 * Or(a \div 2, b \div 2)

RECURSIVE Xor(_, _)
\* a ^ b
Xor(a, b) ==
    IF a = 0 THEN b
    ELSE IF b = 0 THEN a
    ELSE IF a = -1 /\ b = -1 THEN 0
    ELSE (IF a % 2 = b % 2 THEN 0 ELSE 1) + 2 * Xor(a \div 2, b \div 2)

\* a << n
ShiftLeft(a, n) == a * 2^n

\* a >> n (arithmetic shift: floor division)
ShiftRight(a, n) == a \div 2^n

RECURSIVE CountOnes(_)
\* bin(x).count('1'): the ones of the magnitude of x
CountOnes(x) ==
    IF x = 0 THEN 0
    ELSE IF x < 0 THEN CountOnes(-x)
    ELSE (x % 2) + CountOnes(x \div 2)

(***************************************************************************)
(* The matrices set by the constructor (row i of the source is row i + 1). *)
(***************************************************************************)
GeneratorMatrix ==
    << \b10000000000010111100001,
       \b01000000000011011100010,
       \b00100000000011011110100,
       \b00010000000011001111000,
       \b00001000000010101110001,
       \b00000100000001011101001,
       \b00000010000010110101010,
       \b00000001000001101011010,
       \b00000000100011010011100,
       \b00000000010010100111100,
       \b00000000001001001111100,
       \b00000000000111110111010 >>

ParityCheckMatrix ==
    << \b10111100001000000000001,
       \b11011100010000000000010,
       \b11011110100000000000100,
       \b11001111000000000001000,
       \b10101110001000000010000,
       \b01011101001000000100000,
       \b10110101010000001000000,
       \b01101011010000010000000,
       \b11010011100000100000000,
       \b10100111100001000000000,
       \b01001111100010000000000,
       \b11110111010100000000000 >>

(***************************************************************************)
(* _calculate_syndrome                                                     *)
(***************************************************************************)
RECURSIVE SyndromeLoop(_, _, _, _)
SyndromeLoop(pcm, word, i, syndrome) ==
    IF i >= 11 THEN syndrome
    ELSE LET parity == CountOnes(And(word, pcm[i + 1])) % 2
         IN  SyndromeLoop(pcm, word, i + 1, Or(syndrome, ShiftLeft(parity, i)))

calculate_syndrome(pcm, word) == SyndromeLoop(pcm, word, 0, 0)

(***************************************************************************)
(* _build_syndrome_table.  The two loops make one assignment               *)
(* table[syndrome] = error per error pattern, in a fixed order; `rank' is  *)
(* the position of an assignment in that order.  A dict keeps, under each  *)
(* key, the value of the last assignment made to that key.                 *)
(***************************************************************************)
\* for i in range(23): error = 1 << i
SingleWrites(pcm) ==
    { [rank |-> i,
       error |-> ShiftLeft(1, i),
       syndrome |-> calculate_syndrome(pcm, ShiftLeft(1, i))] : i \in 0 .. 22 }

\* for i in range(23): for j in range(i + 1, 23): error = (1 << i) | (1 << j)
PairWrites(pcm) ==
    { [rank |-> 23 + 23 * p[1] + p[2],
       error |-> Or(ShiftLeft(1, p[1]), ShiftLeft(1, p[2])),
       syndrome |-> calculate_syndrome(pcm, Or(ShiftLeft(1, p[1]), ShiftLeft(1, p[2])))] :
      p \in { q \in (0 .. 22) \X (0 .. 22) : q[2] >= q[1] + 1 } }

\* the dict left by a set of ranked assignments
TableOf(writes) ==
    [ s \in { w.syndrome : w \in writes } |->
        (CHOOSE w \in writes :
            /\ w.syndrome = s
            /\ \A v \in writes : v.syndrome = s => v.rank <= w.rank).error ]

build_syndrome_table(pcm) == TableOf(SingleWrites(pcm) \cup PairWrites(pcm))

(***************************************************************************)
(* encode and decode                                                       *)
(***************************************************************************)
RECURSIVE EncodeLoop(_, _, _, _)
\* for i in range(12): if (data >> i) & 1: codeword ^= generator_matrix[i]
EncodeLoop(gm, data, i, codeword) ==
    IF i >= 12 THEN codeword
    ELSE IF And(ShiftRight(data, i), 1) = 1
         THEN EncodeLoop(gm, data, i + 1, Xor(codeword, gm[i + 1]))
         ELSE EncodeLoop(gm, data, i + 1, codeword)

\* the upper limit of the range check taken one too high
encode_raises_above(data) == data < 0 \/ data > ShiftLeft(1, 12)

\* the condition under which encode raises ValueError
encode_raises(data) == data < 0 \/ data >= ShiftLeft(1, 12)

\* the value encode returns when it does not raise
encode(gm, data) == And(EncodeLoop(gm, data, 0, 0), ShiftLeft(1, 23) - 1)

\* decode without the mask of its first line
decode_unmasked(pcm, table, word) ==
    LET masked == word
        syndrome == calculate_syndrome(pcm, masked)
    IN  IF syndrome = 0 THEN << ShiftRight(masked, 11), 0 >>
        ELSE IF syndrome \in DOMAIN table
             THEN LET error_pattern == table[syndrome]
                      corrected == Xor(masked, error_pattern)
                  IN  << ShiftRight(corrected, 11), CountOnes(error_pattern) >>
             ELSE << ShiftRight(masked, 11), -1 >>

decode(pcm, table, word) ==
    LET masked == And(word, ShiftLeft(1, 23) - 1)
        syndrome == calculate_syndrome(pcm, masked)
    IN  IF syndrome = 0 THEN << ShiftRight(masked, 11), 0 >>
        ELSE IF syndrome \in DOMAIN table
             THEN LET error_pattern == table[syndrome]
                      corrected == Xor(masked, error_pattern)
                  IN  << ShiftRight(corrected, 11), CountOnes(error_pattern) >>
             ELSE << ShiftRight(masked, 11), -1 >>

(***************************************************************************)
(* The callers' inputs.                                                    *)
(***************************************************************************)
\* the codec instances constructed
Instances == {1, 2}

\* messages the demonstration sends
Messages == {2730, 42, 4095}

\* every integer the range check of encode has to sort
AllData == (0 - MaxExcess) .. (4095 + MaxExcess)

RECURSIVE Patterns(_)
\* the masks with at most k of the 23 bits set
Patterns(k) ==
    IF k = 0 THEN {0}
    ELSE LET less == Patterns(k - 1)
         IN  less \cup { Or(p, ShiftLeft(1, i)) : p \in less, i \in 0 .. 22 }

ErrorPatterns == Patterns(MaxFlips)

\* integers handed to decode that no channel produced
RawWords ==
    ((0 - MaxRaw) .. MaxRaw) \cup ((2^23 - MaxRaw) .. (2^23 + MaxRaw))

\* the codewords of the messages with at most MaxNoise bits flipped
NoisyWords ==
    { Xor(encode(GeneratorMatrix, d), e) : d \in Messages, e \in Patterns(MaxNoise) }

\* pc is the caller's position: "idle" before any call, "rejected" after an
\* encode that raised ValueError, "encoded" after one that returned, "sent"
\* once the channel has delivered a word, "decoded" after decode returned
\* for that word, "returned" after decode returned for any other integer.
\* data, codeword, flips, received, decoded and errors are the caller's
\* variables of those names; each holds 0 until it is first assigned.
VARIABLES generator_matrix, parity_check_matrix, syndrome_table,
          pc, data, codeword, flips, received, decoded, errors

codecVars == << generator_matrix, parity_check_matrix, syndrome_table >>
vars == << generator_matrix, parity_check_matrix, syndrome_table,
           pc, data, codeword, flips, received, decoded, errors >>

\* GolayCode.__init__ for every instance; no call made yet
Init ==
    /\ generator_matrix = [g \in Instances |-> GeneratorMatrix]
    /\ parity_check_matrix = [g \in Instances |-> ParityCheckMatrix]
    /\ syndrome_table = [g \in Instances |-> build_syndrome_table(ParityCheckMatrix)]
    /\ pc = "idle"
    /\ data = 0
    /\ codeword = 0
    /\ flips = 0
    /\ received = 0
    /\ decoded = 0
    /\ errors = 0

\* codeword = golay.encode(d); a call that raises assigns nothing
Encode(g, d) ==
    /\ data' = d
    /\ IF encode_raises(d)
       THEN /\ pc' = "rejected"
            /\ codeword' = codeword
       ELSE /\ pc' = "encoded"
            /\ codeword' = encode(generator_matrix[g], d)
    /\ UNCHANGED << flips, received, decoded, errors >>
    /\ UNCHANGED codecVars

\* received_corrupted = codeword ^ e
Channel(e) ==
    /\ pc = "encoded"
    /\ flips' = e
    /\ received' = Xor(codeword, e)
    /\ pc' = "sent"
    /\ UNCHANGED << data, codeword, decoded, errors >>
    /\ UNCHANGED codecVars

\* a failed lookup is remembered in the table as a pattern without errors
DecodeMemo(g, r) ==
    /\ LET masked == And(r, ShiftLeft(1, 23) - 1)
           syndrome == calculate_syndrome(parity_check_matrix[g], masked)
           result == decode(parity_check_matrix[g], syndrome_table[g], r)
       IN  /\ decoded' = result[1]
           /\ errors' = result[2]
           /\ syndrome_table' =
                 IF result[2] = -1
                 THEN [syndrome_table EXCEPT ![g] = (syndrome :> 0) @@ @]
                 ELSE syndrome_table
    /\ received' = r
    /\ UNCHANGED << data, codeword, flips >>
    /\ UNCHANGED << generator_matrix, parity_check_matrix >>

\* decoded, errors = golay.decode(r)
Decode(g, r) ==
    /\ LET result == decode(parity_check_matrix[g], syndrome_table[g], r)
       IN  /\ decoded' = result[1]
           /\ errors' = result[2]
    /\ received' = r
    /\ UNCHANGED << data, codeword, flips >>
    /\ UNCHANGED codecVars

\* decode of the word the channel delivered
DecodeReceived(g) ==
    /\ pc = "sent"
    /\ Decode(g, received)
    /\ pc' = "decoded"

\* decode of any integer
DecodeRaw(g, r) ==
    /\ Decode(g, r)
    /\ pc' = "returned"

(***************************************************************************)
(* One transmission: a message is encoded (after any number of rejected    *)
(* attempts), the channel flips at most MaxFlips bits and the word that    *)
(* arrives is decoded; or decode is called with an integer that is not the *)
(* output of the channel.                                                  *)
(***************************************************************************)
Next ==
    \/ /\ pc \in {"idle", "rejected"}
       /\ \E g \in Instances, d \in Messages \cup {-1, 4096} : Encode(g, d)
    \/ \E e \in ErrorPatterns : Channel(e)
    \/ \E g \in Instances : DecodeReceived(g)
    \/ /\ pc \in {"idle", "rejected"}
       /\ \E g \in Instances, r \in RawWords : DecodeRaw(g, r)

Spec == Init /\ [][Next]_vars

(***************************************************************************)
(* One call of encode, with any integer around the 12-bit range.           *)
(***************************************************************************)
NextEncode ==
    /\ pc = "idle"
    /\ \E g \in Instances, d \in AllData : Encode(g, d)

SpecEncode == Init /\ [][NextEncode]_vars

(***************************************************************************)
(* One call of decode, with an integer around the 23-bit range or with a   *)
(* codeword that has some bits flipped.                                    *)
(***************************************************************************)
NextDecode ==
    /\ pc = "idle"
    /\ \E g \in Instances, r \in RawWords \cup NoisyWords : DecodeRaw(g, r)

SpecDecode == Init /\ [][NextDecode]_vars

(***************************************************************************)
(* Any sequence of calls of encode and decode, on either instance.         *)
(***************************************************************************)
NextCalls ==
    \/ \E g \in Instances, d \in Messages \cup {-1, 4096} : Encode(g, d)
    \/ \E g \in Instances, r \in RawWords \cup {codeword} : DecodeRaw(g, r)

SpecCalls == Init /\ [][NextCalls]_vars

(***************************************************************************)
(* Vocabulary of the properties, stated on numbers rather than with the    *)
(* operators of the codec.                                                 *)
(***************************************************************************)
\* bit i of the non-negative integer w
Bit(w, i) == (w \div 2^i) % 2

\* the number of bits set among the 23 bits of w
Weight(w) == Cardinality({ i \in 0 .. 22 : Bit(w, i) = 1 })

\* the number of positions in which two 23-bit words differ
Distance(a, b) == Cardinality({ i \in 0 .. 22 : Bit(a, i) # Bit(b, i) })

\* w masked to 23 bits
Low23(w) == w % 2^23

\* the top 12 of the 23 bits of w
Top12(w) == Low23(w) \div 2^11

\* the syndrome of w under the parity-check matrix of the first instance
SyndromeOf(w) == calculate_syndrome(parity_check_matrix[1], w)

\* the 23 single-bit and 253 double-bit error patterns
CorrectablePatterns ==
    { 2^i : i \in 0 .. 22 } \cup
    { 2^p[1] + 2^p[2] : p \in { q \in (0 .. 22) \X (0 .. 22) : q[1] < q[2] } }

\* the table of a freshly constructed instance
FreshTable == build_syndrome_table(ParityCheckMatrix)

\* a word came out of the channel and decode has returned for it
Delivered == pc = "decoded"

(***************************************************************************)
(* C1. Round trip without noise: when a codeword arrives with no bit       *)
(* flipped, decode returns the information word that was encoded and an    *)
(* error count of 0.                                                       *)
(***************************************************************************)
C1_RoundTripNoNoise ==
    (Delivered /\ flips = 0) => (decoded = data /\ errors = 0)

(***************************************************************************)
(* C2. Single-bit correction: when a codeword arrives with exactly one bit *)
(* flipped, decode returns the information word that was encoded and an    *)
(* error count of 1.                                                       *)
(***************************************************************************)
C2_SingleBitCorrection ==
    (Delivered /\ Weight(flips) = 1) => (decoded = data /\ errors = 1)

(***************************************************************************)
(* C3. Double-bit correction: when a codeword arrives with exactly two     *)
(* bits flipped, decode returns the information word that was encoded and  *)
(* an error count of 2.                                                    *)
(***************************************************************************)
C3_DoubleBitCorrection ==
    (Delivered /\ Weight(flips) = 2) => (decoded = data /\ errors = 2)

(***************************************************************************)
(* C4. Range validation of encode: a call of encode raises ValueError      *)
(* exactly when its argument is below 0 or at least 4096, and a call that  *)
(* returns yields an integer of 23 bits.                                   *)
(***************************************************************************)
C4_EncodeRangeValidation ==
    pc \in {"encoded", "rejected"} =>
        /\ (pc = "rejected") <=> (data < 0 \/ data >= 4096)
        /\ pc = "encoded" => codeword \in 0 .. 8388607

\* encode(4096) has been rejected
C4_Witness == pc = "rejected" /\ data = 4096

(***************************************************************************)
(* C5. The uncorrectable outcome is a returned value: after decode has     *)
(* returned for the integer r, the error count is -1 exactly when the      *)
(* syndrome of r masked to 23 bits is nonzero and is not a key of the      *)
(* syndrome table, and then the information word returned is the top 12    *)
(* bits of the masked r, uncorrected.                                      *)
(***************************************************************************)
C5_UncorrectableIsReported ==
    pc \in {"decoded", "returned"} =>
        \A g \in Instances :
            LET syndrome == calculate_syndrome(parity_check_matrix[g], Low23(received))
                miss == syndrome # 0 /\ syndrome \notin DOMAIN syndrome_table[g]
            IN  /\ (errors = -1) <=> miss
                /\ miss => decoded = Top12(received)

\* decode has reported -1 for a negative integer
C5_Witness == pc = "returned" /\ received < 0 /\ errors = -1

(***************************************************************************)
(* C6. The state of the codec never changes: in every state reached by     *)
(* calls of encode and decode, rejected and failed ones included, the      *)
(* matrices and the syndrome table of every instance are those of the      *)
(* constructor, the tables of the instances are equal, and the result of   *)
(* the last call is the one a freshly constructed codec gives for the      *)
(* same argument.                                                          *)
(***************************************************************************)
C6_CodecStateImmutable ==
    /\ \A g \in Instances :
          /\ generator_matrix[g] = GeneratorMatrix
          /\ parity_check_matrix[g] = ParityCheckMatrix
          /\ syndrome_table[g] = FreshTable
    /\ \A g, h \in Instances : syndrome_table[g] = syndrome_table[h]
    /\ pc = "encoded" => codeword = encode(GeneratorMatrix, data)
    /\ pc = "returned" =>
          << decoded, errors >> = decode(ParityCheckMatrix, FreshTable, received)

\* an encode has returned after an earlier decode reported -1
C6_Witness == pc = "encoded" /\ errors = -1 /\ data = 2730 /\ codeword = 2796463

(***************************************************************************)
(* C7. Zero-collision table: the syndromes of the 23 single-bit and 253    *)
(* double-bit error patterns are pairwise distinct, so that the syndrome   *)
(* table has exactly 276 entries and each of those patterns is the value   *)
(* stored under its own syndrome.                                          *)
(***************************************************************************)
C7_ZeroCollisionTable ==
    \A g \in Instances :
        /\ \A e1, e2 \in CorrectablePatterns :
              e1 # e2 => SyndromeOf(e1) # SyndromeOf(e2)
        /\ Cardinality(DOMAIN syndrome_table[g]) = 276
        /\ \A e \in CorrectablePatterns :
              /\ SyndromeOf(e) \in DOMAIN syndrome_table[g]
              /\ syndrome_table[g][SyndromeOf(e)] = e

(***************************************************************************)
(* C8. The syndrome characterises the codewords: a 23-bit word has         *)
(* syndrome 0 if and only if it is encode(d) for some d in 0..4095.  The   *)
(* words looked at are the codeword an encode returned and the masked      *)
(* word a decode was given.                                                *)
(***************************************************************************)
C8_SyndromeZeroIffCodeword ==
    /\ pc = "encoded" => SyndromeOf(codeword) = 0
    /\ pc \in {"decoded", "returned"} =>
          ((SyndromeOf(Low23(received)) = 0) <=>
           (\E d \in 0 .. 4095 : encode(generator_matrix[1], d) = Low23(received)))

(***************************************************************************)
(* C9. Minimum distance 7: the codeword encode returned for d differs in   *)
(* at least 7 bit positions from the codeword of every other information   *)
(* word (so encode is injective).                                          *)
(***************************************************************************)
C9_MinimumDistance7 ==
    pc = "encoded" =>
        \A d2 \in 0 .. 4095 :
            d2 # data => Distance(codeword, encode(generator_matrix[1], d2)) >= 7

(***************************************************************************)
(* C10. No coincidence for weight-3 errors: the syndrome of an error       *)
(* pattern of weight 3 is nonzero and is not a key of the syndrome table,  *)
(* and a codeword that arrives with three bits flipped is reported         *)
(* uncorrectable: neither error-free nor corrected as a 1- or 2-bit error. *)
(***************************************************************************)
C10_NoCoincidenceWeight3 ==
    (pc \in {"sent", "decoded"} /\ Weight(flips) = 3) =>
        /\ SyndromeOf(flips) # 0
        /\ SyndromeOf(flips) \notin DOMAIN syndrome_table[1]
        /\ pc = "decoded" => errors = -1
=============================================================================
